---------------------------- MODULE Spec2Model ----------------------------
(***************************************************************************)
(* A model of zoltpy's client: connection.py (ZoltarConnection,            *)
(* ZoltarSession, ZoltarResource and its subclasses) and csv_io.py         *)
(* (csv_rows_from_json_io_dict).                                           *)
(*                                                                         *)
(* Strings are sequences of tokens; the token "/" is the path separator    *)
(* and every other token is a slash-free piece of text, so concatenation   *)
(* is \o and two adjacent non-slash tokens are one path segment.           *)
(* JSON values are records tagged by "type" (null, dict, list).            *)
(* The server is the environment: each request is answered by a status     *)
(* and a body chosen from small sets.                                      *)
(***************************************************************************)
EXTENDS Integers, Sequences, FiniteSets, TLC

VARIABLES
    username,   \* ZoltarConnection.username ("None" before authenticate)
    password,   \* ZoltarConnection.password ("None" before authenticate)
    session,    \* ZoltarConnection.session: [has |-> FALSE] is None
    pool,       \* the resource proxies the caller holds, in creation order
    issued,     \* server: the credentials each token was issued for (token k is issued[k])
    preAuth,    \* history: the caller held a proxy at the latest successful credential exchange
    last,       \* history: what the latest operation did (requests sent, outcome, result)
    csv_in,     \* the "JSON IO dict" handed to csv_rows_from_json_io_dict
    csv_out,    \* what csv_rows_from_json_io_dict did with it
    call,       \* a call of a function of the client on its own: its name and argument
    result      \* what that call did

vars == <<username, password, session, pool, issued, preAuth, last, csv_in, csv_out, call, result>>

connVars == <<username, password, session, pool, issued, preAuth, last>>

csvVars == <<csv_in, csv_out>>

fnVars == <<call, result>>

-----------------------------------------------------------------------------
(* Bounds of the model. *)

MaxProxies == 1

MaxTokens == 2

MaxList == 2

MaxArr == 3

MaxEntries == 2

MaxUriLen == 6

MaxStatus == 7

\* the ids of the resources the server holds of each kind
Ids == 1..MaxList

Names == {"n1"}

Users == {"u1"}

Passwords == {"pw"}

Min(a, b) == IF a < b THEN a ELSE b

-----------------------------------------------------------------------------
(* Outcomes of an operation: "ok", or the exception that ended it.  The     *)
(* code raises RuntimeError at every check of its own; the names below map  *)
(* each raise site to the error class the specification gives it.           *)

PreconditionError == "RuntimeError: no session"

RemoteError == "RuntimeError: unexpected status code"

ValidationError == "RuntimeError: wrong keys in model_config"

AuthenticationError == "RuntimeError: get_token status code"

AttributeError == "AttributeError: NoneType has no attribute"

KeyError == "KeyError"

-----------------------------------------------------------------------------
(* JSON values and Python truthiness. *)

None == [type |-> "null"]

Dict(items) == [type |-> "dict", items |-> items]

List(elems) == [type |-> "list", elems |-> elems]

EmptyDict == Dict([k \in {} |-> 0])

\* an integer returned by an operation
Number(n) == [type |-> "int", value |-> n]

HasKey(j, k) == j.type = "dict" /\ k \in DOMAIN j.items

\* bool(x) for the JSON values of the model: None, {} and [] are falsy
Truthy(j) ==
    CASE j.type = "null" -> FALSE
      [] j.type = "dict" -> DOMAIN j.items # {}
      [] j.type = "list" -> Len(j.elems) > 0
      [] OTHER -> TRUE

-----------------------------------------------------------------------------
(* URIs. *)

Host == <<"https:", "/", "/", "zoltardata.com">>

\* the address the server gives the resource `id` of kind `kind`
Locator(kind, id) == Host \o <<"/", "api", "/", kind, "/", ToString(id), "/">>

IsPrefix(s, t) == Len(s) <= Len(t) /\ SubSeq(t, 1, Len(s)) = s

Kinds == {"project", "model", "forecast", "unit", "target", "timezero", "uploadfilejob"}

\* <base>/api/<kind>/<integer-id>/
WellFormedLocator(uri) == \E k \in Kinds, i \in Ids : uri = Locator(k, i)


RECURSIVE Split(_)
\* str.split('/'): the segments between separators, empty ones included
Split(s) ==
    IF s = <<>> THEN << <<>> >>
    ELSE LET r == Split(Tail(s))
         IN  IF Head(s) = "/" THEN << <<>> >> \o r
             ELSE << <<Head(s)>> \o Head(r) >> \o Tail(r)

\* the decimal digits
Digits == {ToString(n) : n \in 0..9}

\* int(text) succeeds on a decimal numeral: a segment of digit tokens
IsInt(seg) == seg # <<>> /\ \A i \in 1..Len(seg) : seg[i] \in Digits

RECURSIVE IntOf(_)
\* the value of a decimal numeral, leading zeros allowed
IntOf(seg) ==
    IF seg = <<>> THEN 0
    ELSE 10 * IntOf(SubSeq(seg, 1, Len(seg) - 1))
         + (CHOOSE n \in 0..9 : ToString(n) = seg[Len(seg)])

RECURSIVE StripSlashes(_)
\* an address without the slashes it ends in
StripSlashes(uri) ==
    IF uri # <<>> /\ uri[Len(uri)] = "/" THEN StripSlashes(SubSeq(uri, 1, Len(uri) - 1)) ELSE uri

RECURSIVE LastRun(_)
\* the longest slash-free tail of an address
LastRun(uri) ==
    IF uri = <<>> \/ uri[Len(uri)] = "/" THEN <<>>
    ELSE Append(LastRun(SubSeq(uri, 1, Len(uri) - 1)), uri[Len(uri)])

\* the last non-empty path segment of an address (empty when it has none)
LastSegment(uri) == LastRun(StripSlashes(uri))

\* a slip: the empty segments are not dropped
nonempty_segments_kept(segs) == segs

\* [split for split in uri.split('/') if split]
nonempty_segments(segs) == SelectSeq(segs, LAMBDA x : x # <<>>)

\* ZoltarResource.id_for_uri: int() of the last non-empty segment
id_for_uri(uri) ==
    LET url_split == nonempty_segments(Split(uri))
    IN  IF url_split = <<>> THEN [ok |-> FALSE, err |-> "IndexError", value |-> 0]
        ELSE IF IsInt(url_split[Len(url_split)])
             THEN [ok |-> TRUE, err |-> "", value |-> IntOf(url_split[Len(url_split)])]
             ELSE [ok |-> FALSE, err |-> "ValueError", value |-> 0]

-----------------------------------------------------------------------------
(* The server (environment). *)

\* what the server knows of a resource: its id, its url and its fields
DetailDict(kind, id, n) ==
    IF kind = "forecast"
    THEN Dict([id |-> id, url |-> Locator(kind, id), name |-> n,
               forecast_data |-> Locator(kind, id) \o <<"data", "/">>])
    ELSE Dict([id |-> id, url |-> Locator(kind, id), name |-> n])

\* the same object with an 'id' field that is not the id of its address
OtherId(d) == Dict([d.items EXCEPT !.id = @ + 1])

\* the bodies a 200 answer to GET uri may carry, for a resource of kind
\* `kind`: the resource at that address (reached with or without the
\* trailing slash), an empty object, or, for a forecast, that resource
\* under another 'id'
DetailBodies(kind, uri) ==
    LET here == {DetailDict(kind, i, n) :
                    i \in {j \in Ids : Locator(kind, j) \in {uri, uri \o <<"/">>}}, n \in Names}
    IN  {EmptyDict} \cup here \cup (IF kind = "forecast" THEN {OtherId(d) : d \in here} ELSE {})

\* the bodies a 200 answer to a list GET may carry: the first n resources
\* of the kind, in the server's order, or fewer of them and then an empty
\* object
ListBodiesOf ==
    [kind \in Kinds |->
        LET resources(n) == [i \in 1..n |-> DetailDict(kind, i, "n1")]
        IN  {List(resources(n)) : n \in 0..MaxList}
            \cup {List(Append(resources(n), EmptyDict)) : n \in 0..(MaxList - 1)}]

ListBodies(kind) == ListBodiesOf[kind]

\* a resource deleted through one of the proxies is gone, and so is
\* everything addressed below it
Gone(uri) == \E i \in 1..Len(pool) : pool[i].deleted /\ IsPrefix(pool[i].uri, uri)

\* an answer: its status and, with a 200, its body
Resp(status, body) == [status |-> status, body |-> body]

\* the answers to a GET or POST of uri whose 200 answer carries one of bodies
Responses(uri, bodies) ==
    IF Gone(uri) THEN {Resp(404, None)}
    ELSE {Resp(404, None)} \cup {Resp(200, b) : b \in bodies}

DeleteStatuses(uri) == IF Gone(uri) THEN {404} ELSE {204, 200, 404}

AuthStatuses == {200, 400}

-----------------------------------------------------------------------------
(* Requests and the record of an operation. *)

\* a request as sent; token 0 is a request with no Authorization header
Req(method, uri, token) == [method |-> method, uri |-> uri, token |-> token]

\* the record of an operation: its name, the proxy it ran on (0 for
\* the connection), how it ended, the requests it sent, the number of
\* calls of json_for_uri and of re_authenticate_if_necessary it made, the
\* status of its last answer, and what it returned
Did(op, p, outcome, reqs, fetches, reauth, status, ret, children, arg) ==
    [op |-> op, p |-> p, outcome |-> outcome, reqs |-> reqs, fetches |-> fetches,
     reauth |-> reauth, status |-> status, ret |-> ret, children |-> children, arg |-> arg]

\* a resource proxy: ZoltarResource.__init__ (deleted is history: a
\* delete() on this proxy has succeeded)
Proxy(kind, uri, initial_json) ==
    [kind |-> kind, uri |-> uri, json |-> initial_json, deleted |-> FALSE]

NoSession == [has |-> FALSE, token |-> 0]

-----------------------------------------------------------------------------
(* ZoltarSession and ZoltarConnection. *)

\* ZoltarSession.is_token_expired
is_token_expired(sess) == TRUE

\* ZoltarSession._get_token: the credential exchange; the token of a 200
\* answer is the next one the server issues
get_token(status, iss) ==
    IF status # 200
    THEN [outcome |-> AuthenticationError, token |-> 0]
    ELSE [outcome |-> "ok", token |-> Len(iss) + 1]

\* ZoltarConnection.authenticate: the credentials are stored first, then
\* ZoltarSession(self) exchanges them; a failed exchange raises before
\* self.session is assigned
authenticate(u, pw, sess, status, iss) ==
    LET t == get_token(status, iss)
    IN  [username |-> u,
         password |-> pw,
         session  |-> IF t.outcome = "ok" THEN [has |-> TRUE, token |-> t.token] ELSE sess,
         issued   |-> IF t.outcome = "ok" THEN Append(iss, [user |-> u, pw |-> pw]) ELSE iss,
         outcome  |-> t.outcome,
         reqs     |-> <<Req("POST", Host \o <<"/", "api-token-auth", "/">>, 0)>>]

\* ZoltarConnection.json_for_uri
json_for_uri(sess, uri, status, body) ==
    IF ~sess.has
    THEN [outcome |-> PreconditionError, reqs |-> <<>>, value |-> None]
    ELSE IF status # 200
         THEN [outcome |-> RemoteError, reqs |-> <<Req("GET", uri, sess.token)>>, value |-> None]
         ELSE [outcome |-> "ok", reqs |-> <<Req("GET", uri, sess.token)>>, value |-> body]

-----------------------------------------------------------------------------
(* ZoltarResource. *)

\* a slip: the cache is assigned whether or not the fetch succeeded
refresh_store_always(old, r) == r.value

\* ZoltarResource.refresh, the assignment `self._json = json_for_uri(...)`:
\* a call that raises assigns nothing
refresh_store(old, r) == IF r.outcome = "ok" THEN r.value ELSE old

\* ZoltarResource.refresh
refresh(px, sess, status, body) ==
    LET r == json_for_uri(sess, px.uri, status, body)
    IN  [json |-> refresh_store(px.json, r), outcome |-> r.outcome, reqs |-> r.reqs,
         fetches |-> 1, value |-> r.value]

\* ZoltarResource.json: `self._json if self._json else self.refresh()`
json(px, sess, status, body) ==
    IF Truthy(px.json)
    THEN [json |-> px.json, outcome |-> "ok", reqs |-> <<>>, fetches |-> 0, value |-> px.json]
    ELSE refresh(px, sess, status, body)

\* a slip: the id is taken from the snapshot when it has one
id_from_snapshot(px) ==
    IF HasKey(px.json, "id")
    THEN [ok |-> TRUE, err |-> "", value |-> px.json.items.id]
    ELSE id_for_uri(px.uri)

\* ZoltarResource.id (the property): ZoltarResource.id_for_uri(self.uri)
proxy_id(px) == id_for_uri(px.uri)

\* a slip: any success status passes
delete_ok_any_success(status) == status \in {200, 204}

\* ZoltarResource.delete, the status check
delete_ok(status) == status = 204

\* a slip: the proxy keeps the first token it saw
request_token_first(sess, px) == Min(sess.token, 1)

\* the token a proxy's request carries: self.zoltar_connection.session.token,
\* read when the request is made
request_token(sess, px) == sess.token

\* a slip: the children are built without their initial_json
children_of_unseeded(kind, elems) ==
    [i \in 1..Len(elems) |-> Proxy(kind, elems[i].items.url, None)]

\* the child proxies of a list answer: [Kind(conn, e['url'], e) for e in list]
children_of(kind, elems) == [i \in 1..Len(elems) |-> Proxy(kind, elems[i].items.url, elems[i])]

\* the kinds of proxy with operations of their own
HeldKinds == {"project", "model", "forecast", "uploadfilejob"}

\* the caller keeps the first proxy an operation returns, when it is of a
\* kind with operations of its own and the caller has room
Adopt(ps, children) ==
    IF children # <<>> /\ children[1].kind \in HeldKinds /\ Len(ps) < MaxProxies
    THEN Append(ps, children[1])
    ELSE ps

\* Project.create_model, expected_keys
expected_keys == {"name", "abbreviation", "team_name", "description", "home_url", "aux_data_url"}

\* the key sets of the model_config arguments tried
Configs ==
    {expected_keys, expected_keys \cup {"extra"}, (expected_keys \ {"name"}) \cup {"extra"},
     expected_keys \ {"aux_data_url"}}

\* Project.create_model, new_model_url
new_model_url(pk) == Host \o <<"/", "api", "/", "model", "/", ToString(pk)>>

\* the navigation properties: the segment appended and the kind of the children
Relations ==
    {[of |-> "project", seg |-> "models", kind |-> "model"],
     [of |-> "project", seg |-> "units", kind |-> "unit"],
     [of |-> "project", seg |-> "targets", kind |-> "target"],
     [of |-> "project", seg |-> "timezeros", kind |-> "timezero"],
     [of |-> "model", seg |-> "forecasts", kind |-> "forecast"]}

\* the forecast data a 200 answer to Forecast.data() carries
DataBody == Dict([predictions |-> <<>>])

-----------------------------------------------------------------------------
(* The operations. *)

\* nothing converted yet; `again` is set by a second call on the same dict,
\* whose result is outcome2 and rows2
Idle ==
    [done |-> FALSE, outcome |-> "", rows |-> <<>>,
     again |-> FALSE, outcome2 |-> "", rows2 |-> <<>>]

\* no call of a function on its own is under way
NoCall == [f |-> "", arg |-> <<>>]

\* value is the number a call returned, text the string
NoResult == [done |-> FALSE, outcome |-> "", value |-> 0, text |-> ""]

Init ==
    /\ username = "None"
    /\ password = "None"
    /\ session = NoSession
    /\ pool = <<>>
    /\ issued = <<>>
    /\ preAuth = FALSE
    /\ last = Did("init", 0, "ok", <<>>, 0, 0, 0, None, <<>>, {})
    /\ csv_in = [predictions |-> <<>>]
    /\ csv_out = Idle
    /\ call = NoCall
    /\ result = NoResult

\* conn.authenticate(u, pw)
Authenticate(u, pw, status) ==
    LET a == authenticate(u, pw, session, status, issued)
    IN  /\ status = 200 => Len(issued) < MaxTokens
        /\ username' = a.username
        /\ password' = a.password
        /\ session' = a.session
        /\ issued' = a.issued
        /\ preAuth' = IF a.outcome = "ok" THEN Len(pool) > 0 ELSE preAuth
        /\ last' = Did("authenticate", 0, a.outcome, a.reqs, 0, 0, status, None, <<>>, {})
        /\ UNCHANGED <<pool, csvVars, fnVars>>

\* conn.re_authenticate_if_necessary(): self.session.is_token_expired() is
\* an attribute access on None before any authentication
ReAuthenticateIfNecessary(status) ==
    IF ~session.has
    THEN /\ last' = Did("re_authenticate_if_necessary", 0, AttributeError, <<>>, 0, 1, 0,
                        None, <<>>, {})
         /\ UNCHANGED <<username, password, session, pool, issued, preAuth, csvVars, fnVars>>
    ELSE IF is_token_expired(session)
    THEN LET a == authenticate(username, password, session, status, issued)
         IN  /\ status = 200 => Len(issued) < MaxTokens
             /\ username' = a.username
             /\ password' = a.password
             /\ session' = a.session
             /\ issued' = a.issued
             /\ preAuth' = IF a.outcome = "ok" THEN Len(pool) > 0 ELSE preAuth
             /\ last' = Did("re_authenticate_if_necessary", 0, a.outcome, a.reqs, 0, 1, status,
                            None, <<>>, {})
             /\ UNCHANGED <<pool, csvVars, fnVars>>
    ELSE /\ last' = Did("re_authenticate_if_necessary", 0, "ok", <<>>, 0, 1, 0, None, <<>>, {})
         /\ UNCHANGED <<username, password, session, pool, issued, preAuth, csvVars, fnVars>>

\* conn.json_for_uri(uri), called by the user
FetchJson(kind, id, status, body) ==
    LET r == json_for_uri(session, Locator(kind, id), status, body)
    IN  /\ last' = Did("json_for_uri", 0, r.outcome, r.reqs, 1, 0,
                       IF r.reqs = <<>> THEN 0 ELSE status, r.value, <<>>, {})
        /\ UNCHANGED <<username, password, session, pool, issued, preAuth, csvVars, fnVars>>

\* Kind(conn, uri): a proxy constructed with no initial_json
NewProxy(kind, id) ==
    /\ Len(pool) < MaxProxies
    /\ pool' = Append(pool, Proxy(kind, Locator(kind, id), None))
    /\ last' = Did("new", Len(pool) + 1, "ok", <<>>, 0, 0, 0, None,
                   <<Proxy(kind, Locator(kind, id), None)>>, {})
    /\ UNCHANGED <<username, password, session, issued, preAuth, csvVars, fnVars>>

\* proxy.json (every snapshot-backed attribute reads it)
Json(p, status, body) ==
    LET r == json(pool[p], session, status, body)
    IN  /\ pool' = [pool EXCEPT ![p].json = r.json]
        /\ last' = Did("json", p, r.outcome, r.reqs, r.fetches, 0,
                       IF r.reqs = <<>> THEN 0 ELSE status, r.value, <<>>, {})
        /\ UNCHANGED <<username, password, session, issued, preAuth, csvVars, fnVars>>

\* proxy.id
Id(p) ==
    LET r == proxy_id(pool[p])
    IN  /\ last' = Did("id", p, IF r.ok THEN "ok" ELSE r.err, <<>>, 0, 0, 0,
                       IF r.ok THEN Number(r.value) ELSE None, <<>>, {})
        /\ UNCHANGED <<username, password, session, pool, issued, preAuth, csvVars, fnVars>>

\* proxy.refresh()
Refresh(p, status, body) ==
    LET r == refresh(pool[p], session, status, body)
    IN  /\ pool' = [pool EXCEPT ![p].json = r.json]
        /\ last' = Did("refresh", p, r.outcome, r.reqs, r.fetches, 0,
                       IF r.reqs = <<>> THEN 0 ELSE status, r.value, <<>>, {})
        /\ UNCHANGED <<username, password, session, issued, preAuth, csvVars, fnVars>>

\* proxy.delete(): session.token is an attribute access on None before any
\* authentication
Delete(p, status) ==
    IF ~session.has
    THEN /\ last' = Did("delete", p, AttributeError, <<>>, 0, 0, 0, None, <<>>, {})
         /\ UNCHANGED <<username, password, session, pool, issued, preAuth, csvVars, fnVars>>
    ELSE /\ pool' = [pool EXCEPT ![p].deleted = @ \/ delete_ok(status)]
         /\ last' = Did("delete", p, IF delete_ok(status) THEN "ok" ELSE RemoteError,
                        <<Req("DELETE", pool[p].uri, request_token(session, pool[p]))>>,
                        0, 0, status, None, <<>>, {})
         /\ UNCHANGED <<username, password, session, issued, preAuth, csvVars, fnVars>>

\* a list fetch wrapped into child proxies: json_for_uri(uri), then one
\* Kind(conn, e['url'], e) per element; an element with no 'url' raises
list_proxies(kind, sess, uri, status, body) ==
    LET r == json_for_uri(sess, uri, status, body)
    IN  IF r.outcome # "ok"
        THEN [outcome |-> r.outcome, reqs |-> r.reqs, children |-> <<>>]
        ELSE IF \E i \in 1..Len(r.value.elems) : ~HasKey(r.value.elems[i], "url")
             THEN [outcome |-> KeyError, reqs |-> r.reqs, children |-> <<>>]
             ELSE [outcome |-> "ok", reqs |-> r.reqs,
                   children |-> children_of(kind, r.value.elems)]

\* conn.projects
Projects(status, body) ==
    LET r == list_proxies("project", session, Host \o <<"/", "api", "/", "projects", "/">>,
                          status, body)
    IN  /\ pool' = Adopt(pool, r.children)
        /\ last' = Did("projects", 0, r.outcome, r.reqs, 1, 0,
                       IF r.reqs = <<>> THEN 0 ELSE status,
                       IF r.outcome = "ok" THEN body ELSE None, r.children, {})
        /\ UNCHANGED <<username, password, session, issued, preAuth, csvVars, fnVars>>

\* project.models, .units, .targets, .timezeros and model.forecasts
Navigate(p, rel, status, body) ==
    LET r == list_proxies(rel.kind, session, pool[p].uri \o <<rel.seg, "/">>, status, body)
    IN  /\ pool[p].kind = rel.of
        /\ pool' = Adopt(pool, r.children)
        /\ last' = Did(rel.seg, p, r.outcome, r.reqs, 1, 0,
                       IF r.reqs = <<>> THEN 0 ELSE status,
                       IF r.outcome = "ok" THEN body ELSE None, r.children, {})
        /\ UNCHANGED <<username, password, session, issued, preAuth, csvVars, fnVars>>

\* a slip: only missing keys are refused, extra keys pass
wrong_keys_missing_only(cfg) == ~(expected_keys \subseteq cfg)

\* Project.create_model, `actual_keys != expected_keys`
wrong_keys(cfg) == cfg # expected_keys

\* Project.create_model: the keys are checked, then the POST is made, then
\* the new model's address is formed from the 'id' of the answer
create_model(px, sess, cfg, status, body) ==
    IF wrong_keys(cfg)
    THEN [outcome |-> ValidationError, reqs |-> <<>>, children |-> <<>>]
    ELSE IF ~sess.has
    THEN [outcome |-> AttributeError, reqs |-> <<>>, children |-> <<>>]
    ELSE LET reqs == <<Req("POST", px.uri \o <<"models", "/">>, request_token(sess, px))>>
         IN  IF status # 200
             THEN [outcome |-> RemoteError, reqs |-> reqs, children |-> <<>>]
             ELSE IF ~HasKey(body, "id")
             THEN [outcome |-> KeyError, reqs |-> reqs, children |-> <<>>]
             ELSE [outcome |-> "ok", reqs |-> reqs,
                   children |-> <<Proxy("model", new_model_url(body.items.id), body)>>]

CreateModel(p, cfg, status, body) ==
    LET r == create_model(pool[p], session, cfg, status, body)
    IN  /\ pool[p].kind = "project"
        /\ pool' = Adopt(pool, r.children)
        /\ last' = Did("create_model", p, r.outcome, r.reqs, 0, 0,
                       IF r.reqs = <<>> THEN 0 ELSE status, None, r.children, cfg)
        /\ UNCHANGED <<username, password, session, issued, preAuth, csvVars, fnVars>>

\* Model.upload_forecast: the UploadFileJob returned has no initial_json
upload_forecast(px, sess, status, body) ==
    IF ~sess.has
    THEN [outcome |-> AttributeError, reqs |-> <<>>, children |-> <<>>]
    ELSE LET reqs == <<Req("POST", px.uri \o <<"forecasts", "/">>, request_token(sess, px))>>
         IN  IF status # 200
             THEN [outcome |-> RemoteError, reqs |-> reqs, children |-> <<>>]
             ELSE IF ~HasKey(body, "url")
             THEN [outcome |-> KeyError, reqs |-> reqs, children |-> <<>>]
             ELSE [outcome |-> "ok", reqs |-> reqs,
                   children |-> <<Proxy("uploadfilejob", body.items.url, None)>>]

UploadForecast(p, status, body) ==
    LET r == upload_forecast(pool[p], session, status, body)
    IN  /\ pool[p].kind = "model"
        /\ pool' = Adopt(pool, r.children)
        /\ last' = Did("upload_forecast", p, r.outcome, r.reqs, 0, 0,
                       IF r.reqs = <<>> THEN 0 ELSE status, None, r.children, {})
        /\ UNCHANGED <<username, password, session, issued, preAuth, csvVars, fnVars>>

\* Model.forecast_for_pk
forecast_for_pk(forecast_pk) ==
    Proxy("forecast", Host \o <<"/", "api", "/", "forecast", "/", ToString(forecast_pk), "/">>, None)

ForecastForPk(p, pk) ==
    /\ pool[p].kind = "model"
    /\ pool' = Adopt(pool, <<forecast_for_pk(pk)>>)
    /\ last' = Did("forecast_for_pk", p, "ok", <<>>, 0, 0, 0, None, <<forecast_for_pk(pk)>>, {})
    /\ UNCHANGED <<username, password, session, issued, preAuth, csvVars, fnVars>>

\* Forecast.data: self.json['forecast_data'] (a snapshot read, which may
\* fetch), then an authenticated GET of that address
ForecastData(p, status1, body1, status2) ==
    LET j == json(pool[p], session, status1, body1)
        st1 == IF j.reqs = <<>> THEN 0 ELSE status1
    IN  /\ pool[p].kind = "forecast"
        /\ pool' = [pool EXCEPT ![p].json = j.json]
        /\ last' =
             IF j.outcome # "ok"
             THEN Did("data", p, j.outcome, j.reqs, j.fetches, 0, st1, None, <<>>, {})
             ELSE IF ~HasKey(j.value, "forecast_data")
             THEN Did("data", p, KeyError, j.reqs, j.fetches, 0, st1, None, <<>>, {})
             ELSE IF ~session.has
             THEN Did("data", p, AttributeError, j.reqs, j.fetches, 0, st1, None, <<>>, {})
             ELSE LET reqs == Append(j.reqs, Req("GET", j.value.items.forecast_data,
                                                 request_token(session, pool[p])))
                  IN  IF status2 # 200
                      THEN Did("data", p, RemoteError, reqs, j.fetches, 0, status2, None, <<>>, {})
                      ELSE Did("data", p, "ok", reqs, j.fetches, 0, status2, DataBody, <<>>, {})
        /\ UNCHANGED <<username, password, session, issued, preAuth, csvVars, fnVars>>

\* the bodies of the answers to create_model's and upload_forecast's POST
CreatedBodies(kind) == {EmptyDict, DetailDict(kind, 1, "n1")}

Next ==
    \/ \E u \in Users, pw \in Passwords, status \in AuthStatuses : Authenticate(u, pw, status)
    \/ \E status \in AuthStatuses : ReAuthenticateIfNecessary(status)
    \/ \E r \in Responses(Locator("project", 1), DetailBodies("project", Locator("project", 1))) :
         FetchJson("project", 1, r.status, r.body)
    \/ \E kind \in {"project", "model", "forecast"} : NewProxy(kind, 1)
    \/ \E p \in 1..Len(pool) :
         \E r \in Responses(pool[p].uri, DetailBodies(pool[p].kind, pool[p].uri)) :
            Json(p, r.status, r.body)
    \/ \E p \in 1..Len(pool) :
         \E r \in Responses(pool[p].uri, DetailBodies(pool[p].kind, pool[p].uri)) :
            Refresh(p, r.status, r.body)
    \/ \E p \in 1..Len(pool) : Id(p)
    \/ \E p \in 1..Len(pool) : \E status \in DeleteStatuses(pool[p].uri) : Delete(p, status)
    \/ \E r \in Responses(Host \o <<"/", "api", "/", "projects", "/">>, ListBodies("project")) :
         Projects(r.status, r.body)
    \/ \E p \in 1..Len(pool), rel \in Relations :
         \E r \in Responses(pool[p].uri \o <<rel.seg, "/">>, ListBodies(rel.kind)) :
            Navigate(p, rel, r.status, r.body)
    \/ \E p \in 1..Len(pool), cfg \in Configs :
         \E r \in Responses(pool[p].uri \o <<"models", "/">>, CreatedBodies("model")) :
            CreateModel(p, cfg, r.status, r.body)
    \/ \E p \in 1..Len(pool) :
         \E r \in Responses(pool[p].uri \o <<"forecasts", "/">>, CreatedBodies("uploadfilejob")) :
            UploadForecast(p, r.status, r.body)
    \/ \E p \in 1..Len(pool) : ForecastForPk(p, 1)
    \/ \E p \in 1..Len(pool) :
         \E r1 \in Responses(pool[p].uri, DetailBodies(pool[p].kind, pool[p].uri)),
            r2 \in Responses(pool[p].uri \o <<"data", "/">>, {DataBody}) :
            ForecastData(p, r1.status, r1.body, r2.status)

Spec == Init /\ [][Next]_vars

-----------------------------------------------------------------------------
(* Properties of the resource-proxy cache and of the connection. *)

\* the operations that read the list behind a navigation property
NavOps == {"projects", "models", "units", "targets", "timezeros", "forecasts"}

\* the answers a snapshot read of proxy px may meet
ReadResponses(px) == {Resp(404, None)} \cup {Resp(200, b) : b \in DetailBodies(px.kind, px.uri)}

\* the latest operation called json_for_uri for a proxy's own snapshot and
\* the call failed (no session, or a status other than 200)
FetchFailed(l) ==
    /\ l.op \in {"json", "refresh", "data"}
    /\ l.fetches = 1
    /\ Len(l.reqs) <= 1
    /\ l.outcome \in {PreconditionError, RemoteError}

\* C1: a read of the snapshot of a proxy that holds none yet (constructed
\* without initial_json, nothing fetched) makes exactly one fetch, and a
\* read of a proxy that has a snapshot stored makes none.
C1_ReadFetchesOnce ==
    [][last'.op = "json" =>
         last'.fetches = (IF pool[last'.p].json = None THEN 1 ELSE 0)]_vars

\* C2: every request that carries a token is sent by an operation that
\* called re_authenticate_if_necessary() first, and the token it carries
\* is not one is_token_expired() reports expired.
C2_ReauthenticatedBeforeRequest ==
    \A i \in 1..Len(last.reqs) :
        last.reqs[i].token # 0 =>
            /\ last.reauth >= 1
            /\ ~is_token_expired([has |-> TRUE, token |-> last.reqs[i].token])

\* C3: a failed fetch of a proxy's snapshot (by refresh() or by a lazy
\* read) leaves the cached snapshot as it was; a snapshot the proxy held is
\* what a read returns afterwards, and a proxy with none still has none.
C3_FailedFetchKeepsSnapshot ==
    [][FetchFailed(last') =>
         /\ pool'[last'.p].json = pool[last'.p].json
         /\ Truthy(pool[last'.p].json) =>
               \A r \in ReadResponses(pool'[last'.p]) :
                   json(pool'[last'.p], session', r.status, r.body).value = pool[last'.p].json]_vars

\* C3, its case: a refresh() the server refused, on a proxy holding a snapshot
C3_Witness ==
    /\ FetchFailed(last)
    /\ last.op = "refresh"
    /\ last.outcome = RemoteError
    /\ Truthy(pool[last.p].json)

\* C4: every proxy the client has created has a locator of the form
\* <base>/api/<kind>/<integer-id>/, ending in a slash.
C4_LocatorsWellFormed ==
    /\ \A i \in 1..Len(pool) : WellFormedLocator(pool[i].uri)
    /\ \A i \in 1..Len(last.children) : WellFormedLocator(last.children[i].uri)

\* C5: create_model with a key set other than the six expected keys fails
\* with ValidationError and sends no request; a request is sent only for
\* exactly that key set, and it is one POST.
C5_WrongKeysNoRequest ==
    last.op = "create_model" =>
        /\ last.arg # expected_keys => last.outcome = ValidationError /\ last.reqs = <<>>
        /\ last.reqs # <<>> =>
              /\ last.arg = expected_keys
              /\ Len(last.reqs) = 1
              /\ last.reqs[1].method = "POST"

\* C5, its case: a config with one key missing, refused on a connection
\* that could have sent the POST
C5_Witness ==
    /\ last.op = "create_model"
    /\ session.has
    /\ last.arg = expected_keys \ {"aux_data_url"}
    /\ last.outcome = ValidationError

\* C6: with no session, every operation that needs authentication fails
\* with PreconditionError and sends no request.
C6_NoSessionPrecondition ==
    (/\ ~session.has
     /\ \/ last.op \in NavOps \cup {"json_for_uri", "json", "refresh", "delete", "upload_forecast",
                                    "data", "re_authenticate_if_necessary"}
        \/ last.op = "create_model" /\ last.arg = expected_keys)
    => last.outcome = PreconditionError /\ last.reqs = <<>>

\* C7: every access to a navigation property makes exactly one list fetch
\* (one GET whenever a session exists) and, when it succeeds, returns one
\* child per element of the answer, in the answer's order, each holding
\* its element as snapshot, so that a read of the child fetches nothing.
C7_NavigationFetchesAndSeeds ==
    last.op \in NavOps =>
        /\ last.fetches = 1
        /\ session.has => Len(last.reqs) = 1 /\ last.reqs[1].method = "GET"
        /\ last.outcome = "ok" =>
              /\ Len(last.children) = Len(last.ret.elems)
              /\ \A i \in 1..Len(last.children) :
                    /\ last.children[i].json = last.ret.elems[i]
                    /\ last.children[i].uri = last.ret.elems[i].items.url
                    /\ \A r \in ReadResponses(last.children[i]) :
                          LET read == json(last.children[i], session, r.status, r.body)
                          IN  read.fetches = 0 /\ read.value = last.ret.elems[i]

\* C7, its case: a list of two different models, wrapped in order
C7_Witness ==
    /\ last.op = "models"
    /\ last.outcome = "ok"
    /\ Len(last.children) = 2
    /\ last.children[1] # last.children[2]

\* C8: every request that carries a token carries the newest token the
\* server has issued to the connection, which is the session's.
C8_RequestsCarryNewestToken ==
    \A i \in 1..Len(last.reqs) :
        last.reqs[i].token # 0 =>
            last.reqs[i].token = Len(issued) /\ last.reqs[i].token = session.token

\* C8, its case: after a second credential exchange, a proxy that was held
\* before it sends a request of its own
C8_Witness ==
    /\ Len(issued) = 2
    /\ preAuth
    /\ last.op \in {"delete", "create_model", "upload_forecast", "data"}
    /\ last.p = 1
    /\ last.reqs # <<>>
    /\ last.reqs[Len(last.reqs)].token = 2

\* C9 as stated: delete() succeeds only on a 204, and once it has
\* succeeded on a proxy no snapshot read, refresh, navigation or data()
\* on that proxy succeeds.
C9_DeleteIsTerminal ==
    /\ last.op = "delete" /\ last.reqs # <<>> =>
          (last.outcome = "ok" <=> last.status = 204)
    /\ (/\ last.op \in (NavOps \ {"projects"}) \cup {"json", "refresh", "data"}
        /\ pool[last.p].deleted)
       => last.outcome # "ok"

\* C9, amended: with a session, delete() sends one DELETE of the proxy's
\* locator carrying the session's token; a delete() that sent its request
\* succeeds exactly when the server answers 204 and fails with RemoteError
\* on any other answer; it leaves the proxy's
\* locator and cached snapshot as they were, and a snapshot read of a
\* deleted proxy that holds a non-empty snapshot succeeds, returns it
\* and fetches nothing.
C9_DeleteKeepsProxy ==
    [][/\ last'.op = "delete" =>
            /\ session.has =>
                  last'.reqs = <<Req("DELETE", pool[last'.p].uri, session.token)>>
            /\ last'.reqs # <<>> =>
                  /\ last'.outcome = "ok" <=> last'.status = 204
                  /\ last'.outcome \in {"ok", RemoteError}
            /\ pool'[last'.p].uri = pool[last'.p].uri
            /\ pool'[last'.p].json = pool[last'.p].json
            /\ pool'[last'.p].deleted = (pool[last'.p].deleted \/ last'.outcome = "ok")
       /\ (last'.op = "json" /\ pool[last'.p].deleted /\ Truthy(pool[last'.p].json)) =>
            /\ last'.outcome = "ok"
            /\ last'.ret = pool[last'.p].json
            /\ last'.fetches = 0]_vars

\* C9, its case: a snapshot read served from the cache of a deleted proxy
C9_Witness ==
    /\ last.op = "json"
    /\ pool[last.p].deleted
    /\ last.outcome = "ok"
    /\ last.ret = pool[last.p].json

\* C16: reading a proxy's id succeeds whatever the proxy holds and whether
\* or not a session exists, returns the number its locator ends in (not
\* the 'id' of its snapshot), sends nothing, fetches nothing, and leaves
\* every proxy and the session as they were.
C16_IdFromLocator ==
    [][last'.op = "id" =>
         /\ last'.outcome = "ok"
         /\ last'.ret = Number(IntOf(LastSegment(pool[last'.p].uri)))
         /\ last'.reqs = <<>> /\ last'.fetches = 0
         /\ pool' = pool
         /\ session' = session]_vars

\* C16, its case: the id read of a proxy whose snapshot has another 'id'
C16_Witness ==
    /\ last.op = "id"
    /\ HasKey(pool[last.p].json, "id")
    /\ pool[last.p].json.items.id # last.ret.value

\* the steps that read the snapshot of a proxy
ReadOps == {"json", "data"}

\* C18 as stated: a proxy's snapshot is changed only by its own refresh()
\* or by the first lazy fetch of a read of it, made while it holds none;
\* every other operation, on it or on another proxy or on the connection,
\* leaves it as it was, so a model read after upload_forecast returns the
\* snapshot it held; and the job upload_forecast returns holds no snapshot.
C18_SnapshotChangedOnlyByOwnFetch ==
    [][/\ \A i \in 1..Len(pool) :
             pool'[i].json # pool[i].json =>
                /\ last'.p = i
                /\ \/ last'.op = "refresh"
                   \/ last'.op \in ReadOps /\ pool[i].json = None
       /\ (last'.op = "upload_forecast" /\ last'.outcome = "ok") =>
             /\ last'.children[1].kind = "uploadfilejob"
             /\ last'.children[1].json = None
             /\ Truthy(pool[last'.p].json) =>
                   \A r \in ReadResponses(pool'[last'.p]) :
                       json(pool'[last'.p], session', r.status, r.body).value
                           = pool[last'.p].json]_vars

\* C18, what the code does: the same, except that a read fetches, and may
\* change the snapshot, whenever the snapshot held is None or empty.
C18_SnapshotChangedOnlyByFetchOfFalsy ==
    [][/\ \A i \in 1..Len(pool) :
             pool'[i].json # pool[i].json =>
                /\ last'.p = i
                /\ \/ last'.op = "refresh"
                   \/ last'.op \in ReadOps /\ ~Truthy(pool[i].json)
       /\ (last'.op = "upload_forecast" /\ last'.outcome = "ok") =>
             /\ last'.children[1].kind = "uploadfilejob"
             /\ last'.children[1].json = None
             /\ Truthy(pool[last'.p].json) =>
                   \A r \in ReadResponses(pool'[last'.p]) :
                       json(pool'[last'.p], session', r.status, r.body).value
                           = pool[last'.p].json]_vars

\* C18, its case: an upload_forecast that succeeded on a model holding a
\* snapshot, which it still holds
C18_Witness ==
    /\ last.op = "upload_forecast"
    /\ last.outcome = "ok"
    /\ Truthy(pool[last.p].json)
    /\ last.children[1].json = None

\* the cache of a proxy is in state Cached once a snapshot has been stored
Cached(px) == px.json # None

\* C19 as stated: the cache is Unfetched or Cached(snapshot); only a fetch
\* of the proxy's own address takes it out of Unfetched; a refresh() that
\* succeeds leaves it Cached with the answer as snapshot; it never goes
\* from Cached to Unfetched, and a read of a Cached proxy, whatever the
\* snapshot, returns the snapshot and fetches nothing.
C19_TwoStateCache ==
    [][\A i \in 1..Len(pool) :
          /\ (~Cached(pool[i]) /\ Cached(pool'[i])) =>
                /\ last'.p = i
                /\ last'.op \in ReadOps \cup {"refresh"}
                /\ last'.fetches = 1
                /\ last'.reqs # <<>> /\ last'.reqs[1].method = "GET"
                /\ last'.reqs[1].uri = pool[i].uri
          /\ (last'.op = "refresh" /\ last'.p = i /\ last'.outcome = "ok") =>
                Cached(pool'[i]) /\ pool'[i].json = last'.ret
          /\ Cached(pool[i]) => Cached(pool'[i])
          /\ (Cached(pool[i]) /\ last'.p = i /\ last'.op \in ReadOps) =>
                /\ last'.fetches = 0
                /\ pool'[i].json = pool[i].json
                /\ last'.op = "json" => last'.ret = pool[i].json]_vars

\* C19, what the code does: the same, except that only a non-empty snapshot
\* is returned by a read without a fetch.
C19_TwoStateCacheOfTruthy ==
    [][\A i \in 1..Len(pool) :
          /\ (~Cached(pool[i]) /\ Cached(pool'[i])) =>
                /\ last'.p = i
                /\ last'.op \in ReadOps \cup {"refresh"}
                /\ last'.fetches = 1
                /\ last'.reqs # <<>> /\ last'.reqs[1].method = "GET"
                /\ last'.reqs[1].uri = pool[i].uri
          /\ (last'.op = "refresh" /\ last'.p = i /\ last'.outcome = "ok") =>
                Cached(pool'[i]) /\ pool'[i].json = last'.ret
          /\ Cached(pool[i]) => Cached(pool'[i])
          /\ (Truthy(pool[i].json) /\ last'.p = i /\ last'.op \in ReadOps) =>
                /\ last'.fetches = 0
                /\ pool'[i].json = pool[i].json
                /\ last'.op = "json" => last'.ret = pool[i].json]_vars

\* C19, its case: a read of a proxy whose snapshot is the empty object
\* fetches again
C19_Witness ==
    /\ last.op = "json"
    /\ last.fetches = 1
    /\ last.outcome = RemoteError
    /\ pool[last.p].json = EmptyDict

-----------------------------------------------------------------------------
(* The connection on its own, with credentials that vary. *)

\* the passwords authenticate is called with
AuthPasswords == {"pw", "pw2"}

\* authenticate with either password, re-authentication and a fetch of an
\* address; the server accepts or refuses any credentials (an account can
\* be disabled and a password changed between two exchanges)
NextAuth ==
    \/ \E u \in Users, pw \in AuthPasswords, status \in AuthStatuses : Authenticate(u, pw, status)
    \/ \E status \in AuthStatuses : ReAuthenticateIfNecessary(status)
    \/ \E kind \in {"project", "model", "forecast"} :
         \E r \in Responses(Locator(kind, 1), DetailBodies(kind, Locator(kind, 1))) :
            FetchJson(kind, 1, r.status, r.body)

SpecAuth == Init /\ [][NextAuth]_vars

\* the credentials stored on the connection
Stored == [user |-> username, pw |-> password]

\* the latest step was an authenticate or re-authentication whose
\* credential exchange the server refused
ExchangeFailed(l) ==
    l.op \in {"authenticate", "re_authenticate_if_necessary"} /\ l.outcome = AuthenticationError

\* C20 as stated: the token of the session the connection holds was issued
\* for the credentials stored on the connection, and an authenticate whose
\* exchange fails leaves the stored credentials and the session as they
\* were.
C20_SessionOfStoredCredentials ==
    [][/\ session'.has => issued'[session'.token] = [user |-> username', pw |-> password']
       /\ ExchangeFailed(last') =>
             /\ username' = username /\ password' = password
             /\ session' = session]_vars

\* C20, what the code does: a failed exchange leaves the session and the
\* tokens issued as they were (the credentials are stored before the
\* exchange), and a successful one makes a session for the credentials
\* stored.
C20_FailedExchangeKeepsSession ==
    [][/\ ExchangeFailed(last') => session' = session /\ issued' = issued
       /\ (last'.op \in {"authenticate", "re_authenticate_if_necessary"}
           /\ last'.outcome = "ok") =>
             /\ session'.has /\ session'.token = Len(issued')
             /\ issued'[session'.token] = [user |-> username', pw |-> password']]_vars

\* C20, its case: the session was issued for one password and another is
\* stored, after an authenticate the server refused
C20_Witness ==
    /\ ExchangeFailed(last)
    /\ last.op = "authenticate"
    /\ session.has
    /\ issued[session.token] # Stored

-----------------------------------------------------------------------------
(* csv_io.py: csv_rows_from_json_io_dict. *)

CSV_HEADER ==
    <<"unit", "target", "class", "value", "cat", "prob", "sample", "quantile", "family",
      "param1", "param2", "param3">>

\* the class tags csv_io imports from zoltpy.quantile_io
BIN_DISTRIBUTION_CLASS == "bin"

NAMED_DISTRIBUTION_CLASS == "named"

POINT_PREDICTION_CLASS == "point"

SAMPLE_PREDICTION_CLASS == "sample"

\* the classes the conversion accepts
prediction_classes == {"bin", "named", "point", "sample", "quantile"}

\* the class-specific columns, all empty
Defaults ==
    [value |-> "", cat |-> "", prob |-> "", sample |-> "", quantile |-> "", family |-> "",
     param1 |-> "", param2 |-> "", param3 |-> ""]

\* a row, from the class-specific columns as they stand when it is appended
RowOf(unit, target, class, c) ==
    <<unit, target, class, c.value, c.cat, c.prob, c.sample, c.quantile, c.family,
      c.param1, c.param2, c.param3>>

\* a slip: the shorter array is padded instead of the longer being cut
zip_padded(a, b) == [i \in 1..Len(a) |-> <<a[i], IF i <= Len(b) THEN b[i] ELSE "">>]

\* zip(a, b): the pairs up to the end of the shorter array
zip(a, b) == [i \in 1..Min(Len(a), Len(b)) |-> <<a[i], b[i]>>]

\* the keys of the payload the branch of a class reads
required_keys(class) ==
    CASE class = BIN_DISTRIBUTION_CLASS -> {"cat", "prob"}
      [] class = NAMED_DISTRIBUTION_CLASS -> {"family"}
      [] class = POINT_PREDICTION_CLASS -> {"value"}
      [] class = SAMPLE_PREDICTION_CLASS -> {"sample"}
      [] OTHER -> {"quantile", "value"}

\* a slip: the class-specific columns are emptied once, before the loop
reset_columns_once(c) == c

\* line 37, at the start of every iteration: the class-specific columns
\* (the locals value, cat, ..., param3) all default to empty
reset_columns(c) == Defaults

\* a slip: the two loop variables are bound the wrong way round
bin_columns_swapped(c, pair) == [c EXCEPT !.cat = pair[2], !.prob = pair[1]]

\* `for cat, prob in zip(...)`: the loop variables of the bin branch
bin_columns(c, pair) == [c EXCEPT !.cat = pair[1], !.prob = pair[2]]

\* the rows one prediction_dict of an accepted class appends (the branch
\* of its class), c being the class-specific locals when the branch starts:
\* a row takes every column the branch does not assign from those locals
entry_rows(c, pd) ==
    LET unit == pd.unit
        target == pd.target
        class == pd.class
        prediction == pd.prediction
        has(k) == k \in DOMAIN prediction
    IN  CASE class = BIN_DISTRIBUTION_CLASS ->
               LET pairs == zip(prediction.cat, prediction.prob)
               IN  [i \in 1..Len(pairs) |->
                       RowOf(unit, target, class, bin_columns(c, pairs[i]))]
          [] class = NAMED_DISTRIBUTION_CLASS ->
               <<RowOf(unit, target, class,
                       [c EXCEPT
                           !.family = prediction.family,
                           !.param1 = IF has("param1") THEN prediction.param1 ELSE "",
                           !.param2 = IF has("param2") THEN prediction.param2 ELSE "",
                           !.param3 = IF has("param3") THEN prediction.param3 ELSE ""])>>
          [] class = POINT_PREDICTION_CLASS ->
               <<RowOf(unit, target, class, [c EXCEPT !.value = prediction.value])>>
          [] class = SAMPLE_PREDICTION_CLASS ->
               [i \in 1..Len(prediction.sample) |->
                   RowOf(unit, target, class, [c EXCEPT !.sample = prediction.sample[i]])]
          [] OTHER ->
               LET pairs == zip(prediction.quantile, prediction.value)
               IN  [i \in 1..Len(pairs) |->
                       RowOf(unit, target, class,
                             [c EXCEPT !.quantile = pairs[i][1], !.value = pairs[i][2]])]

\* the class-specific locals when the branch of pd ends: the loop
\* variables of a for loop keep the values of its last iteration
entry_columns(c, pd) ==
    LET class == pd.class
        prediction == pd.prediction
    IN  CASE class = BIN_DISTRIBUTION_CLASS ->
               LET pairs == zip(prediction.cat, prediction.prob)
               IN  IF pairs = <<>> THEN c
                   ELSE [c EXCEPT !.cat = pairs[Len(pairs)][1], !.prob = pairs[Len(pairs)][2]]
          [] class = NAMED_DISTRIBUTION_CLASS -> c
          [] class = POINT_PREDICTION_CLASS -> c
          [] class = SAMPLE_PREDICTION_CLASS ->
               IF prediction.sample = <<>> THEN c
               ELSE [c EXCEPT !.sample = prediction.sample[Len(prediction.sample)]]
          [] OTHER ->
               LET pairs == zip(prediction.quantile, prediction.value)
               IN  IF pairs = <<>> THEN c
                   ELSE [c EXCEPT !.quantile = pairs[Len(pairs)][1],
                                  !.value = pairs[Len(pairs)][2]]

\* a slip: the rows of an entry are put in front of the rows so far
append_rows_front(rows, new) == <<Head(rows)>> \o new \o Tail(rows)

\* rows.append(...), once per row of the entry, in the order of the loop
append_rows(rows, new) == rows \o new

\* line 30: RuntimeError(f"invalid prediction_dict class: {prediction_class}"),
\* the raise site of the error class FormatError
FormatError(class) == "RuntimeError: invalid prediction_dict class: " \o class

\* line 24: RuntimeError("no predictions section found in json_io_dict")
NoPredictionsError == "RuntimeError: no predictions section"

\* a slip: the rows gathered before the failure are handed back
abort_rows_kept(rows) == rows

\* what the caller receives of the rows gathered when the call raises: nothing
abort_rows(rows) == <<>>

RECURSIVE rows_from(_, _, _)
\* the for loop over json_io_dict['predictions'], from the rows so far and
\* the class-specific locals the previous iteration left: an exception ends
\* the call and nothing is returned
rows_from(rows, c, predictions) ==
    IF predictions = <<>> THEN [outcome |-> "ok", rows |-> rows]
    ELSE LET pd == Head(predictions)
         IN  IF pd.class \notin prediction_classes
             THEN [outcome |-> FormatError(pd.class), rows |-> abort_rows(rows)]
             ELSE IF ~(required_keys(pd.class) \subseteq DOMAIN pd.prediction)
             THEN [outcome |-> KeyError, rows |-> abort_rows(rows)]
             ELSE rows_from(append_rows(rows, entry_rows(reset_columns(c), pd)),
                            entry_columns(reset_columns(c), pd), Tail(predictions))

\* a slip: the entries are taken off the argument's list as they are read
\* (`while predictions: prediction_dict = predictions.pop(0)`)
predictions_consumed(predictions) == <<>>

\* line 27, `for prediction_dict in json_io_dict['predictions']`: what the
\* call leaves of the list it iterates; it assigns no item and calls no
\* method of the list, of an entry or of a payload
predictions_after(predictions) == predictions

\* the argument as a call leaves it for the caller
argument_after(json_io_dict) ==
    IF "predictions" \in DOMAIN json_io_dict
    THEN [json_io_dict EXCEPT !.predictions = predictions_after(@)]
    ELSE json_io_dict

\* csv_rows_from_json_io_dict
csv_rows_from_json_io_dict(json_io_dict) ==
    IF "predictions" \notin DOMAIN json_io_dict
    THEN [outcome |-> NoPredictionsError, rows |-> <<>>]
    ELSE rows_from(<<CSV_HEADER>>, Defaults, json_io_dict.predictions)

\* the array of k values named after `prefix`: not sorted, and with a
\* repeated value from the third on
Arr(prefix, k) == [i \in 1..k |-> prefix \o ToString(i % 2)]

Lengths == 0..MaxArr

Units == {"u1", "u2"}

PredictionDict(unit, class, prediction) ==
    [unit |-> unit, target |-> "t1", class |-> class, prediction |-> prediction]

\* the payloads tried, by class
Payloads ==
    [class \in prediction_classes \cup {"bogus", "Bin"} |->
        CASE class = "bin" ->
               {[cat |-> Arr("c", m), prob |-> Arr("p", n)] : m \in Lengths, n \in Lengths}
          [] class = "quantile" ->
               {[quantile |-> Arr("q", m), value |-> Arr("v", n)] : m \in Lengths, n \in Lengths}
          [] class = "sample" -> {[sample |-> Arr("s", n)] : n \in Lengths}
          [] class = "point" ->
               {[value |-> "v9"], [value |-> "v9", cat |-> Arr("c", 2)], [cat |-> Arr("c", 2)]}
          [] class = "named" ->
               {[family |-> "norm"], [family |-> "norm", param1 |-> "a1"],
                [family |-> "norm", param2 |-> "a2"],
                [family |-> "norm", param1 |-> "a1", param2 |-> "a2", param3 |-> "a3"],
                [param1 |-> "a1"]}
          [] OTHER -> {[value |-> "v9"]}]

\* the prediction_dicts tried: any class with a payload of that class, for
\* unit u1, and for unit u2 the bin entries with as many cats as probs
PredictionDicts ==
    UNION {{PredictionDict("u1", class, pl) : pl \in Payloads[class]} : class \in DOMAIN Payloads}
    \cup {PredictionDict(u, "bin", pl) :
             u \in Units, pl \in {x \in Payloads["bin"] : Len(x.cat) = Len(x.prob)}}

\* the json_io_dicts tried: up to MaxEntries predictions with no "meta"
\* section, one prediction beside a "meta" section, and a dict with no
\* "predictions" section
InitCsv ==
    /\ username = "None"
    /\ password = "None"
    /\ session = NoSession
    /\ pool = <<>>
    /\ issued = <<>>
    /\ preAuth = FALSE
    /\ last = Did("init", 0, "ok", <<>>, 0, 0, 0, None, <<>>, {})
    /\ \/ \E n \in 0..MaxEntries : \E ps \in [1..n -> PredictionDicts] :
              csv_in = [predictions |-> ps]
       \/ \E ps \in [1..1 -> PredictionDicts] : csv_in = [meta |-> "m", predictions |-> ps]
       \/ csv_in = [meta |-> "m"]
    /\ csv_out = Idle
    /\ call = NoCall
    /\ result = NoResult

\* rows = csv_rows_from_json_io_dict(json_io_dict)
Convert ==
    /\ ~csv_out.done
    /\ csv_out' = [csv_out EXCEPT
                      !.done = TRUE,
                      !.outcome = csv_rows_from_json_io_dict(csv_in).outcome,
                      !.rows = csv_rows_from_json_io_dict(csv_in).rows]
    /\ csv_in' = argument_after(csv_in)
    /\ UNCHANGED <<connVars, fnVars>>

\* a second rows = csv_rows_from_json_io_dict(json_io_dict) on the same
\* dict object, as the first call left it
ConvertAgain ==
    /\ csv_out.done
    /\ ~csv_out.again
    /\ csv_out' = [csv_out EXCEPT
                      !.again = TRUE,
                      !.outcome2 = csv_rows_from_json_io_dict(csv_in).outcome,
                      !.rows2 = csv_rows_from_json_io_dict(csv_in).rows]
    /\ csv_in' = argument_after(csv_in)
    /\ UNCHANGED <<connVars, fnVars>>

NextCsv == Convert \/ ConvertAgain

SpecCsv == InitCsv /\ [][NextCsv]_vars

-----------------------------------------------------------------------------
(* Properties of the conversion. *)

\* a conversion has been made of a dict whose predictions all have an
\* accepted class
ConvertedRecognized ==
    /\ csv_out.done
    /\ "predictions" \in DOMAIN csv_in
    /\ \A i \in 1..Len(csv_in.predictions) : csv_in.predictions[i].class \in prediction_classes

RECURSIVE SumSeq(_)
\* the sum of a sequence of numbers
SumSeq(ns) == IF ns = <<>> THEN 0 ELSE Head(ns) + SumSeq(Tail(ns))

\* the rows the claim counts for an entry: one per category, per sample,
\* per quantile; one for a point or a named entry
StatedCount(pd) ==
    CASE pd.class = "bin" -> Len(pd.prediction.cat)
      [] pd.class = "sample" -> Len(pd.prediction.sample)
      [] pd.class = "quantile" -> Len(pd.prediction.quantile)
      [] OTHER -> 1

\* one row per (cat, prob) pair and per (quantile, value) pair: the
\* shorter of the two arrays decides
PairedCount(pd) ==
    CASE pd.class = "bin" -> Min(Len(pd.prediction.cat), Len(pd.prediction.prob))
      [] pd.class = "sample" -> Len(pd.prediction.sample)
      [] pd.class = "quantile" -> Min(Len(pd.prediction.quantile), Len(pd.prediction.value))
      [] OTHER -> 1

\* every payload has the fields the branch of its class reads
PayloadsKeyed ==
    \A i \in 1..Len(csv_in.predictions) :
        required_keys(csv_in.predictions[i].class) \subseteq DOMAIN csv_in.predictions[i].prediction

\* C10 as stated: for predictions of accepted classes the conversion
\* returns the header and then k rows per bin entry of k categories, per
\* sample entry of k samples, per quantile entry of k quantiles, and one
\* row per point or named entry whatever its payload holds.
C10_RowCountStated ==
    ConvertedRecognized =>
        /\ csv_out.outcome = "ok"
        /\ Len(csv_out.rows) = 1 + SumSeq([i \in 1..Len(csv_in.predictions) |-> StatedCount(csv_in.predictions[i])])
        /\ csv_out.rows[1] = CSV_HEADER

\* C10, amended: when every payload has the fields of its class, the
\* conversion returns the header and then one row per (cat, prob) pair of
\* a bin entry, per sample, per (quantile, value) pair of a quantile
\* entry (k rows when both arrays hold k values, the shorter array
\* deciding otherwise), and one row per point or named entry whatever
\* else its payload holds; when a payload lacks such a field the
\* conversion fails with KeyError and returns no rows.
C10_RowCountOfPairs ==
    ConvertedRecognized =>
        IF PayloadsKeyed
        THEN /\ csv_out.outcome = "ok"
             /\ Len(csv_out.rows) =
                   1 + SumSeq([i \in 1..Len(csv_in.predictions) |->
                                  PairedCount(csv_in.predictions[i])])
             /\ csv_out.rows[1] = CSV_HEADER
        ELSE csv_out.outcome = KeyError /\ csv_out.rows = <<>>

\* C10, its case: a converted set with a bin entry of two categories and
\* one probability, followed by a point entry with more than its value
C10_Witness ==
    /\ ConvertedRecognized
    /\ csv_out.outcome = "ok"
    /\ Len(csv_in.predictions) = 2
    /\ csv_in.predictions[1].class = "bin"
    /\ Len(csv_in.predictions[1].prediction.cat) = 2
    /\ Len(csv_in.predictions[1].prediction.prob) = 1
    /\ csv_in.predictions[2].class = "point"
    /\ "cat" \in DOMAIN csv_in.predictions[2].prediction
    /\ Len(csv_out.rows) = 3

\* the rows that precede those of entry i: the header is not counted
Offset(i) == SumSeq([j \in 1..(i - 1) |-> PairedCount(csv_in.predictions[j])])

\* row r is the k-th row of prediction_dict pd: it carries the k-th element
\* of the source arrays of pd, or pd's single value
RowIsKthOf(r, pd, k) ==
    /\ r[1] = pd.unit /\ r[2] = pd.target /\ r[3] = pd.class
    /\ CASE pd.class = "bin" -> r[5] = pd.prediction.cat[k] /\ r[6] = pd.prediction.prob[k]
         [] pd.class = "sample" -> r[7] = pd.prediction.sample[k]
         [] pd.class = "quantile" ->
              r[8] = pd.prediction.quantile[k] /\ r[4] = pd.prediction.value[k]
         [] pd.class = "point" -> r[4] = pd.prediction.value
         [] OTHER -> r[9] = pd.prediction.family

\* C11: a second conversion of the same dict object, as the first call
\* left it, ends as the first did and returns the same rows (a call changes
\* nothing the next call reads); and in a successful conversion the rows
\* of entry i follow those of every earlier entry, and the k-th row of an
\* entry carries the k-th element of its source arrays (nothing sorted,
\* nothing de-duplicated).
C11_DeterministicInOrder ==
    /\ csv_out.again => csv_out.outcome2 = csv_out.outcome /\ csv_out.rows2 = csv_out.rows
    /\ (ConvertedRecognized /\ PayloadsKeyed) =>
          \A i \in 1..Len(csv_in.predictions) :
              \A k \in 1..PairedCount(csv_in.predictions[i]) :
                  /\ 1 + Offset(i) + k <= Len(csv_out.rows)
                  /\ RowIsKthOf(csv_out.rows[1 + Offset(i) + k], csv_in.predictions[i], k)

\* C11, its case: converted twice, a sample entry whose samples are
\* neither sorted nor distinct, followed by a bin entry of two pairs
C11_Witness ==
    /\ csv_out.again
    /\ csv_out.outcome = "ok"
    /\ Len(csv_in.predictions) = 2
    /\ csv_in.predictions[1].class = "sample"
    /\ csv_in.predictions[1].prediction.sample = <<"s1", "s0", "s1">>
    /\ csv_in.predictions[2].class = "bin"
    /\ PairedCount(csv_in.predictions[2]) = 2
    /\ Len(csv_out.rows) = 6

\* the class-specific columns (4: value ... 12: param3) of a row of a class
\* that the class fills
FilledColumns(class) ==
    CASE class = "bin" -> {5, 6}
      [] class = "named" -> {9, 10, 11, 12}
      [] class = "point" -> {4}
      [] class = "sample" -> {7}
      [] OTHER -> {8, 4}

\* C12: in a successful conversion every data row has every class-specific
\* column empty but those of its class, whatever the entries before it
\* were, and the row of a named entry has param1..3 as the payload gives
\* them and empty where it gives none.
C12_OtherColumnsEmpty ==
    (ConvertedRecognized /\ PayloadsKeyed) =>
        /\ \A n \in 2..Len(csv_out.rows) :
              \A col \in (4..12) \ FilledColumns(csv_out.rows[n][3]) : csv_out.rows[n][col] = ""
        /\ \A i \in 1..Len(csv_in.predictions) :
              LET pd == csv_in.predictions[i]
                  r == csv_out.rows[1 + Offset(i) + 1]
                  param(k) == IF k \in DOMAIN pd.prediction THEN pd.prediction[k] ELSE ""
              IN  pd.class = "named" =>
                     r[10] = param("param1") /\ r[11] = param("param2") /\ r[12] = param("param3")

\* C12, its case: a bin entry of two pairs, then a named entry that gives
\* param2 only
C12_Witness ==
    /\ csv_out.done
    /\ csv_out.outcome = "ok"
    /\ Len(csv_in.predictions) = 2
    /\ csv_in.predictions[1].class = "bin"
    /\ PairedCount(csv_in.predictions[1]) = 2
    /\ csv_in.predictions[2].class = "named"
    /\ DOMAIN csv_in.predictions[2].prediction = {"family", "param2"}
    /\ Len(csv_out.rows) = 4
    /\ csv_out.rows[4][5] = ""

\* the positions of the entries whose class is not an accepted one
Offending == {i \in 1..Len(csv_in.predictions) : csv_in.predictions[i].class \notin prediction_classes}

\* a conversion has been made of a dict with such an entry
ConvertedOffending == csv_out.done /\ "predictions" \in DOMAIN csv_in /\ Offending # {}

\* the first of them
FirstOffending == CHOOSE i \in Offending : \A j \in Offending : i <= j

\* C13 as stated: when some entry has a class other than the five, the
\* conversion fails with FormatError naming such a class and returns no rows.
C13_BadClassIsFormatError ==
    ConvertedOffending =>
        /\ csv_out.rows = <<>>
        /\ \E i \in Offending : csv_out.outcome = FormatError(csv_in.predictions[i].class)

\* C13, amended: when some entry has a class other than the five, the
\* conversion returns no rows; it fails with FormatError naming the class
\* of the first such entry when every entry before that one has the fields
\* of its class, and with KeyError otherwise.
C13_FirstBadClassAborts ==
    ConvertedOffending =>
        /\ csv_out.rows = <<>>
        /\ csv_out.outcome =
              IF \A j \in 1..(FirstOffending - 1) :
                    required_keys(csv_in.predictions[j].class)
                        \subseteq DOMAIN csv_in.predictions[j].prediction
              THEN FormatError(csv_in.predictions[FirstOffending].class)
              ELSE KeyError

\* C13, its case: a bin entry of two pairs, then an entry of class "Bin"
C13_Witness ==
    /\ ConvertedOffending
    /\ Len(csv_in.predictions) = 2
    /\ csv_in.predictions[1].class = "bin"
    /\ PairedCount(csv_in.predictions[1]) = 2
    /\ csv_in.predictions[2].class = "Bin"
    /\ csv_out.outcome = FormatError("Bin")
    /\ csv_out.rows = <<>>

\* the (cat, prob) pairs of the data rows returned that carry the unit and
\* the target of pd and the class "bin", in row order
ReadBack(pd) ==
    LET data == IF csv_out.rows = <<>> THEN <<>> ELSE Tail(csv_out.rows)
        mine == SelectSeq(data, LAMBDA r : r[1] = pd.unit /\ r[2] = pd.target /\ r[3] = "bin")
    IN  [n \in 1..Len(mine) |-> <<mine[n][5], mine[n][6]>>]

\* the (cat[k], prob[k]) pairs of a bin entry, as far as both arrays go
OriginalPairs(pd) ==
    [k \in 1..Min(Len(pd.prediction.cat), Len(pd.prediction.prob)) |->
        <<pd.prediction.cat[k], pd.prediction.prob[k]>>]

\* no other bin entry of the dict has the unit and the target of entry i
OnlyBinOfItsUnit(i) ==
    \A j \in 1..Len(csv_in.predictions) :
        (/\ j # i
         /\ csv_in.predictions[j].class = "bin"
         /\ csv_in.predictions[j].unit = csv_in.predictions[i].unit)
        => csv_in.predictions[j].target # csv_in.predictions[i].target

\* C14 as stated: after a conversion, the pairs read back from the rows
\* with the unit, target and class of a bin entry are the entry's pairs,
\* in order.
C14_BinPairsReadBack ==
    (csv_out.done /\ "predictions" \in DOMAIN csv_in) =>
        \A i \in 1..Len(csv_in.predictions) :
            csv_in.predictions[i].class = "bin" =>
                ReadBack(csv_in.predictions[i]) = OriginalPairs(csv_in.predictions[i])

\* C14, amended: after a successful conversion, the rows at the position
\* of a bin entry carry its (cat[k], prob[k]) pairs in order, as far as
\* both arrays go; and the pairs read back by unit, target and class are
\* those pairs when no other bin entry has the same unit and target.
C14_BinPairsOfEntry ==
    (csv_out.done /\ csv_out.outcome = "ok") =>
        \A i \in 1..Len(csv_in.predictions) :
            LET pd == csv_in.predictions[i]
            IN  pd.class = "bin" =>
                   /\ [k \in 1..PairedCount(pd) |->
                          <<csv_out.rows[1 + Offset(i) + k][5], csv_out.rows[1 + Offset(i) + k][6]>>]
                         = OriginalPairs(pd)
                   /\ OnlyBinOfItsUnit(i) => ReadBack(pd) = OriginalPairs(pd)

\* C14, its case: two bin entries for different units, read back apart
C14_Witness ==
    /\ csv_out.done
    /\ csv_out.outcome = "ok"
    /\ Len(csv_in.predictions) = 2
    /\ csv_in.predictions[1].class = "bin"
    /\ csv_in.predictions[2].class = "bin"
    /\ csv_in.predictions[1].unit # csv_in.predictions[2].unit
    /\ ReadBack(csv_in.predictions[1]) = <<<<"c1", "p1">>, <<"c0", "p0">>>>
    /\ Len(ReadBack(csv_in.predictions[2])) = 3

-----------------------------------------------------------------------------
(* Functions of the client checked on their own. *)

RECURSIVE SeqsUpTo(_, _)
\* the sequences over S of length at most n
SeqsUpTo(S, n) ==
    IF n = 0 THEN {<<>>}
    ELSE LET shorter == SeqsUpTo(S, n - 1)
         IN  shorter \cup {Append(x, t) : x \in shorter, t \in S}

\* the tokens the addresses tried are made of
UriTokens == {"/", "api", "0", "7"}

\* the addresses handed to id_for_uri
Uris == SeqsUpTo(UriTokens, MaxUriLen)

\* UploadFileJob.STATUS_ID_TO_STR
STATUS_ID_TO_STR ==
    (0 :> "PENDING") @@ (1 :> "CLOUD_FILE_UPLOADED") @@ (2 :> "QUEUED") @@
    (3 :> "CLOUD_FILE_DOWNLOADED") @@ (4 :> "SUCCESS") @@ (5 :> "FAILED")

\* UploadFileJob.status_as_str: self.json['status'] (a snapshot read, which
\* may fetch), then the dict lookup STATUS_ID_TO_STR[status_int]; either
\* subscript raises KeyError on a key that is not there
status_as_str(px, sess, status, body) ==
    LET j == json(px, sess, status, body)
    IN  IF j.outcome # "ok" THEN [outcome |-> j.outcome, text |-> ""]
        ELSE IF ~HasKey(j.value, "status") THEN [outcome |-> KeyError, text |-> ""]
        ELSE IF j.value.items.status \notin DOMAIN STATUS_ID_TO_STR
        THEN [outcome |-> KeyError, text |-> ""]
        ELSE [outcome |-> "ok", text |-> STATUS_ID_TO_STR[j.value.items.status]]

\* the status integers the server is tried with
Statuses == (0 - 2)..MaxStatus

\* the snapshots of an upload file job tried: one per status, and one with
\* no 'status' field
JobSnapshots ==
    {Dict([id |-> 1, url |-> Locator("uploadfilejob", 1), status |-> n]) : n \in Statuses}
    \cup {Dict([id |-> 1, url |-> Locator("uploadfilejob", 1)])}

InitFn ==
    /\ username = "None"
    /\ password = "None"
    /\ session = NoSession
    /\ pool = <<>>
    /\ issued = <<>>
    /\ preAuth = FALSE
    /\ last = Did("init", 0, "ok", <<>>, 0, 0, 0, None, <<>>, {})
    /\ csv_in = [predictions |-> <<>>]
    /\ csv_out = Idle
    /\ \/ \E uri \in Uris : call = [f |-> "id_for_uri", arg |-> uri]
       \/ \E snapshot \in JobSnapshots : call = [f |-> "status_as_str", arg |-> snapshot]
    /\ result = NoResult

\* ZoltarResource.id_for_uri(uri)
IdForUri ==
    /\ call.f = "id_for_uri"
    /\ ~result.done
    /\ result' = LET r == id_for_uri(call.arg)
                 IN  [done |-> TRUE, outcome |-> IF r.ok THEN "ok" ELSE r.err, value |-> r.value,
                      text |-> ""]
    /\ UNCHANGED <<call, connVars, csvVars>>

\* job.status_as_str on an UploadFileJob whose snapshot is call.arg (the
\* snapshot is held, so the read sends nothing)
StatusAsStr ==
    /\ call.f = "status_as_str"
    /\ ~result.done
    /\ result' = LET r == status_as_str(Proxy("uploadfilejob", call.arg.items.url, call.arg),
                                        session, 404, None)
                 IN  [done |-> TRUE, outcome |-> r.outcome, value |-> 0, text |-> r.text]
    /\ UNCHANGED <<call, connVars, csvVars>>

NextFn == IdForUri \/ StatusAsStr

SpecFn == InitFn /\ [][NextFn]_vars

\* C15: for an address whose last non-empty segment is a decimal numeral,
\* id_for_uri returns its value, with or without slashes at the end and
\* with empty segments anywhere.
C15_IdOfLastSegment ==
    (result.done /\ call.f = "id_for_uri" /\ IsInt(LastSegment(call.arg))) =>
        result.outcome = "ok" /\ result.value = IntOf(LastSegment(call.arg))

\* C15, its case: a doubled slash before the numeral and a slash after it
C15_Witness ==
    /\ result.done
    /\ call = [f |-> "id_for_uri", arg |-> <<"api", "/", "/", "7", "0", "/">>]
    /\ result.value = 70

\* the outcomes of the raise statements of the code, each a RuntimeError:
\* connection.py lines 59, 64, 83, 165, 233, 241, 298 and 337, and
\* csv_io.py lines 24 and 30 (for the classes tried)
RuntimeErrors ==
    {PreconditionError, RemoteError, ValidationError, AuthenticationError, NoPredictionsError}
    \cup {FormatError(class) : class \in DOMAIN Payloads}

\* the names of the statuses 0..5, in order
StatusNames ==
    <<"PENDING", "CLOUD_FILE_UPLOADED", "QUEUED", "CLOUD_FILE_DOWNLOADED", "SUCCESS", "FAILED">>

\* status_as_str has been read on a job whose snapshot has an integer status
StatusRead == result.done /\ call.f = "status_as_str" /\ HasKey(call.arg, "status")

\* C17 as stated: the status accessor returns the name of a status in 0..5,
\* and for any other integer fails with an error the client raises itself
\* (FormatError is one of its RuntimeErrors) instead of returning a name.
C17_StatusNameOrFormatError ==
    StatusRead =>
        IF call.arg.items.status \in 0..5
        THEN result.outcome = "ok" /\ result.text = StatusNames[call.arg.items.status + 1]
        ELSE result.outcome \in RuntimeErrors /\ result.text = ""

\* C17, what the code does: the name of a status in 0..5, and the KeyError
\* of the dict lookup, with no name, for any other integer.
C17_StatusNameOrKeyError ==
    StatusRead =>
        IF call.arg.items.status \in 0..5
        THEN result.outcome = "ok" /\ result.text = StatusNames[call.arg.items.status + 1]
        ELSE result.outcome = KeyError /\ result.text = ""

\* C17, its case: status 6 read on a job
C17_Witness ==
    /\ StatusRead
    /\ call.arg.items.status = 6
    /\ result.outcome = KeyError

=============================================================================
